---- MODULE Spec2Model ----
(***************************************************************************)
(* Table normalisation rules of slate-edit-table.                          *)
(*                                                                         *)
(*   src/lib/schema/validateNode.js  "Mode A": validateNode(opts) returns  *)
(*       validateTableNode, which tries rowsContainRequiredColumns and     *)
(*       tableContainAlignData in that order and returns the normalizer of *)
(*       the first rule that diagnoses the node.                           *)
(*   src/lib/makeSchema.js           "Mode B": makeSchema(opts) returns    *)
(*       the rules tablesContainOnlyRows and rowsContainRequiredColumns,   *)
(*       which the host applies one by one.                                *)
(*                                                                         *)
(* A node is a record [key, type, nodes]; the node handed to the rules     *)
(* also carries data.  Keys are tuples: the path of the node in the        *)
(* initial document, or <<0, n>> for the n-th node minted by a repair.     *)
(***************************************************************************)
EXTENDS Integers, Sequences, FiniteSets, TLC

\* ---------------------------------------------------------------- bounds
MaxChildren == 2    \* children of the node under validation
MaxRowLen == 2      \* children of one row
MaxAlign == 2       \* length of a stored data.align

\* ----------------------------------------------------------- opts, types
typeTable == "table"
typeRow == "table_row"
typeCell == "table_cell"
typeOther == "paragraph"
typeText == "text"

AlignTags == {"left"}
AlignDefault == "none"

Max(a, b) == IF a >= b THEN a ELSE b

\* ------------------------------------------------------- initial documents
TextNode(k) == [key |-> k, type |-> typeText, nodes |-> <<>>]

\* a child of a row, at path <<i, j>>: a cell holding one text, or another block
RowChild(i, j, t) ==
    [key |-> <<i, j>>, type |-> t,
     nodes |-> IF t = typeCell THEN <<TextNode(<<i, j, 1>>)>> ELSE <<>>]

RowKidTypes == UNION {[1..n -> {typeCell, typeOther}] : n \in 0..MaxRowLen}

ChildShapes ==
    {[type |-> typeRow, kids |-> k] : k \in RowKidTypes}
        \cup {[type |-> typeOther, kids |-> <<>>]}

NodeShapes == UNION {[1..n -> ChildShapes] : n \in 0..MaxChildren}

MkChild(i, shape) ==
    [key |-> <<i>>, type |-> shape.type,
     nodes |-> [j \in 1..Len(shape.kids) |-> RowChild(i, j, shape.kids[j])]]

AlignSeqs == UNION {[1..n -> AlignTags] : n \in 0..MaxAlign}

\* data is an immutable Map; only its 'align' entry is read
DataValues ==
    {[hasAlign |-> FALSE, align |-> <<>>]}
        \cup {[hasAlign |-> TRUE, align |-> a] : a \in AlignSeqs}

MkNode(t, shape, d) ==
    [key |-> <<>>, type |-> t,
     nodes |-> [i \in 1..Len(shape) |-> MkChild(i, shape[i])],
     data |-> d]

\* ---------------------------------------------------------------- state
VARIABLES
    mode,       \* "A": validateNode plugin, "B": makeSchema rules
    node,       \* the current snapshot of the node under validation
    pc,         \* "run" | "done" | "error" (validateTableNode threw)
    iter,       \* repairs applied so far
    pre,        \* the snapshot the last repair was computed from
    last,       \* the rule that made the last repair, or "none"
    diag,       \* the diagnosis of the last repair
    ops,        \* the edit operations the last repair emitted
    validated,  \* rules whose validate ran in the last validateTableNode call
    nextKey     \* the host's key generator

vars == <<mode, node, pc, iter, pre, last, diag, ops, validated, nextKey>>

\* ------------------------------------------------------ shared predicates
isRow(n) == n.type = typeRow
notRow(n) == n.type # typeRow
isCell(n) == n.type = typeCell
notCell(n) == n.type # typeCell
countCells(row) == Len(SelectSeq(row.nodes, isCell))

\* ------------------------------------------------------ empty-node factory
makeEmptyCell(n) ==
    [key |-> <<0, n>>, type |-> typeCell, nodes |-> <<TextNode(<<0, n, 1>>)>>]

makeEmptyRow(n) ==
    [key |-> <<0, n>>, type |-> typeRow, nodes |-> <<makeEmptyCell(n + 1)>>]

\* ------------------------------------------------------- edit operations
NoNode == [key |-> <<>>, type |-> "", nodes |-> <<>>]
NoData == [hasAlign |-> FALSE, align |-> <<>>]

removeNodeByKey(k, norm) ==
    [op |-> "remove", key |-> k, index |-> 0, node |-> NoNode,
     data |-> NoData, normalize |-> norm]

insertNodeByKey(k, i, n, norm) ==
    [op |-> "insert", key |-> k, index |-> i, node |-> n,
     data |-> NoData, normalize |-> norm]

setNodeByKey(k, d, norm) ==
    [op |-> "set", key |-> k, index |-> 0, node |-> NoNode,
     data |-> d, normalize |-> norm]

RECURSIVE removeNode(_, _)
removeNode(n, k) ==
    LET hasOtherKey(c) == c.key # k
        kept == SelectSeq(n.nodes, hasOtherKey)
    IN  [n EXCEPT !.nodes = [i \in 1..Len(kept) |-> removeNode(kept[i], k)]]

RECURSIVE insertNode(_, _, _, _)
insertNode(n, k, i, new) ==
    IF n.key = k
    THEN [n EXCEPT !.nodes = SubSeq(n.nodes, 1, i) \o <<new>>
                                \o SubSeq(n.nodes, i + 1, Len(n.nodes))]
    ELSE [n EXCEPT !.nodes =
            [j \in 1..Len(n.nodes) |-> insertNode(n.nodes[j], k, i, new)]]

setNode(n, k, d) == IF n.key = k THEN [n EXCEPT !.data = d] ELSE n

ApplyOp(n, o) ==
    CASE o.op = "remove" -> removeNode(n, o.key)
      [] o.op = "insert" -> insertNode(n, o.key, o.index, o.node)
      [] o.op = "set" -> setNode(n, o.key, o.data)

RECURSIVE ApplyOps(_, _)
ApplyOps(n, os) ==
    IF os = <<>> THEN n ELSE ApplyOps(ApplyOp(n, Head(os)), Tail(os))

\* --------------------------------------------------------------- diagnoses
\* status: "null" (validate returned null), "diag", "throw" (TypeError)
Diagnosis(s, r, i, a, al, c) ==
    [status |-> s, rows |-> r, invalids |-> i, add |-> a, align |-> al,
     columns |-> c]

NullDiagnosis == Diagnosis("null", <<>>, <<>>, <<>>, <<>>, 0)


\* ============================================ src/lib/schema/validateNode.js

\* ---- tablesContainOnlyRows (defined, commented out of the rule list)
tablesContainOnlyRows_match(n) == n.type = typeTable

tablesContainOnlyRows_validate(table) ==
    LET invalids == SelectSeq(table.nodes, notRow)
        add == IF Len(invalids) = Len(table.nodes)
               THEN <<makeEmptyRow(nextKey)>> ELSE <<>>
    IN  IF invalids = <<>> /\ Len(add) = 0
        THEN NullDiagnosis
        ELSE Diagnosis("diag", <<>>, invalids, add, <<>>, 0)

tablesContainOnlyRows_normalize(n, d) ==
    [i \in 1..Len(d.invalids) |-> removeNodeByKey(d.invalids[i].key, FALSE)]
        \o [i \in 1..Len(d.add) |-> insertNodeByKey(n.key, 0, d.add[i], TRUE)]

\* ---- rowsContainRequiredColumns
rowsContainRequiredColumns_match(n) == n.type = typeTable

\* faulty variant: the reduce starts from 0, losing "Min 1 column"
RECURSIVE reduceColumnsNoMin(_, _)
reduceColumnsNoMin(rows, count) ==
    IF rows = <<>> THEN 0
    ELSE Max(countCells(Head(rows)), reduceColumnsNoMin(Tail(rows), count))

RECURSIVE reduceColumns(_, _)
reduceColumns(rows, count) ==
    IF rows = <<>> THEN count
    ELSE reduceColumns(Tail(rows), Max(count, countCells(Head(rows))))

\* the mapper of rows.map(...): valid stands for the mapper's null
invalidRow(row, columns) ==
    LET cells == countCells(row)
        invalids == SelectSeq(row.nodes, notCell)
    IN  [valid |-> invalids = <<>> /\ cells = columns,
         row |-> row, invalids |-> invalids, add |-> columns - cells]

isInvalidRow(e) == ~e.valid

rowsContainRequiredColumns_validate(table) ==
    LET rows == SelectSeq(table.nodes, isRow)
        columns == reduceColumns(rows, 1)
        invalidRows ==
            SelectSeq([i \in 1..Len(rows) |-> invalidRow(rows[i], columns)],
                      isInvalidRow)
    IN  IF Len(invalidRows) > 0
        THEN Diagnosis("diag", invalidRows, <<>>, <<>>, <<>>, 0)
        ELSE NullDiagnosis

\* faulty variant: the cells are inserted before the invalid children are removed
RECURSIVE normalizeRowsInsertFirst(_, _)
normalizeRowsInsertFirst(rows, n) ==
    IF rows = <<>> THEN <<>>
    ELSE LET e == Head(rows)
         IN  [j \in 1..e.add |->
                    insertNodeByKey(e.row.key, 0, makeEmptyCell(n + j - 1), FALSE)]
             \o [i \in 1..Len(e.invalids) |->
                    removeNodeByKey(e.invalids[i].key, FALSE)]
             \o normalizeRowsInsertFirst(Tail(rows), n + e.add)

\* rows.forEach: n is the number of the next key the host mints
RECURSIVE normalizeRows(_, _)
normalizeRows(rows, n) ==
    IF rows = <<>> THEN <<>>
    ELSE LET e == Head(rows)
         IN  [i \in 1..Len(e.invalids) |->
                    removeNodeByKey(e.invalids[i].key, FALSE)]
             \o [j \in 1..e.add |->
                    insertNodeByKey(e.row.key, 0, makeEmptyCell(n + j - 1), FALSE)]
             \o normalizeRows(Tail(rows), n + e.add)

rowsContainRequiredColumns_normalize(n, d) == normalizeRows(d.rows, nextKey)

\* ---- tableContainAlignData
tableContainAlignData_match(n) == n.type = typeTable

\* table.data.get('align', [])
dataGetAlign(data) == IF data.hasAlign THEN data.align ELSE <<>>

\* node.data.set('align', a)
dataSetAlign(data, a) == [hasAlign |-> TRUE, align |-> a]

\* faulty variant: columns is the number of rows of the table
tableContainAlignData_validateRowCount(table) ==
    LET align == dataGetAlign(table.data)
    IN  IF table.nodes = <<>>
        THEN Diagnosis("throw", <<>>, <<>>, <<>>, <<>>, 0)
        ELSE LET row == Head(table.nodes)
                 columns == Len(table.nodes)
             IN  IF row.type # typeRow THEN NullDiagnosis
                 ELSE IF Len(align) = columns THEN NullDiagnosis
                 ELSE Diagnosis("diag", <<>>, <<>>, <<>>, align, columns)

\* faulty variant: columns counts only the cells of the first row
tableContainAlignData_validateCellCount(table) ==
    LET align == dataGetAlign(table.data)
    IN  IF table.nodes = <<>>
        THEN Diagnosis("throw", <<>>, <<>>, <<>>, <<>>, 0)
        ELSE LET row == Head(table.nodes)
                 columns == countCells(row)
             IN  IF row.type # typeRow THEN NullDiagnosis
                 ELSE IF Len(align) = columns THEN NullDiagnosis
                 ELSE Diagnosis("diag", <<>>, <<>>, <<>>, align, columns)

tableContainAlignData_validate(table) ==
    LET align == dataGetAlign(table.data)
    IN  IF table.nodes = <<>>
        THEN \* first() is undefined: reading row.type raises a TypeError
             Diagnosis("throw", <<>>, <<>>, <<>>, <<>>, 0)
        ELSE LET row == Head(table.nodes)
                 columns == Len(row.nodes)
             IN  IF row.type # typeRow THEN NullDiagnosis
                 ELSE IF Len(align) = columns THEN NullDiagnosis
                 ELSE Diagnosis("diag", <<>>, <<>>, <<>>, align, columns)

\* ../createAlign: exactly `columns` entries, the existing ones kept by index
createAlign(columns, align) ==
    [i \in 1..columns |-> IF i <= Len(align) THEN align[i] ELSE AlignDefault]

tableContainAlignData_normalize(n, d) ==
    <<setNodeByKey(n.key, dataSetAlign(n.data, createAlign(d.columns, d.align)),
                   FALSE)>>

\* ---- the rule list and the pipeline
\* faulty variant: the alignment rule is tried first
rulesAlignFirst == <<"tableContainAlignData", "rowsContainRequiredColumns">>

rules == <<"rowsContainRequiredColumns", "tableContainAlignData">>

ruleMatch(rule, n) ==
    CASE rule = "rowsContainRequiredColumns" -> rowsContainRequiredColumns_match(n)
      [] rule = "tableContainAlignData" -> tableContainAlignData_match(n)
      [] rule = "tablesContainOnlyRows" -> tablesContainOnlyRows_match(n)

ruleValidate(rule, n) ==
    CASE rule = "rowsContainRequiredColumns" -> rowsContainRequiredColumns_validate(n)
      [] rule = "tableContainAlignData" -> tableContainAlignData_validate(n)
      [] rule = "tablesContainOnlyRows" -> tablesContainOnlyRows_validate(n)

ruleNormalize(rule, n, d) ==
    CASE rule = "rowsContainRequiredColumns" -> rowsContainRequiredColumns_normalize(n, d)
      [] rule = "tableContainAlignData" -> tableContainAlignData_normalize(n, d)
      [] rule = "tablesContainOnlyRows" -> tablesContainOnlyRows_normalize(n, d)

\* validateRule: status "undefined" | "changer" | "throw"
toValidateNode(rule, n) ==
    IF ~ruleMatch(rule, n)
    THEN [status |-> "undefined", rule |-> rule, diag |-> NullDiagnosis,
          validated |-> <<>>]
    ELSE LET validationResult == ruleValidate(rule, n)
         IN  [status |-> CASE validationResult.status = "throw" -> "throw"
                           [] validationResult.status = "null" -> "undefined"
                           [] OTHER -> "changer",
              rule |-> rule, diag |-> validationResult,
              validated |-> <<rule>>]

\* faulty variant: every validator runs, the last changer wins
RECURSIVE findValidatorNoStop(_, _, _)
findValidatorNoStop(n, i, seen) ==
    IF i > Len(rules)
    THEN [status |-> "undefined", rule |-> "none", diag |-> NullDiagnosis,
          validated |-> seen]
    ELSE LET r == toValidateNode(rules[i], n)
             rest == findValidatorNoStop(n, i + 1, seen \o r.validated)
         IN  IF r.status = "undefined" \/ rest.status # "undefined"
             THEN rest
             ELSE [r EXCEPT !.validated = rest.validated]

\* validators.find(...): stops at the first validator that returns a changer
RECURSIVE findValidator(_, _, _)
findValidator(n, i, seen) ==
    IF i > Len(rules)
    THEN [status |-> "undefined", rule |-> "none", diag |-> NullDiagnosis,
          validated |-> seen]
    ELSE LET r == toValidateNode(rules[i], n)
         IN  IF r.status = "undefined"
             THEN findValidator(n, i + 1, seen \o r.validated)
             ELSE [r EXCEPT !.validated = seen \o r.validated]

validateTableNode(n) == findValidator(n, 1, <<>>)


\* ===================================================== src/lib/makeSchema.js

\* ---- tablesContainOnlyRows
schemaTablesContainOnlyRows_match(n) == n.type = typeTable

\* faulty variant: a synthetic row is added whenever something is removed
schemaTablesContainOnlyRows_validateAddAlways(table) ==
    LET invalids == SelectSeq(table.nodes, notRow)
        add == IF Len(invalids) > 0 \/ Len(table.nodes) = 0
               THEN <<makeEmptyRow(nextKey)>> ELSE <<>>
    IN  IF invalids = <<>> /\ Len(add) = 0
        THEN NullDiagnosis
        ELSE Diagnosis("diag", <<>>, invalids, add, <<>>, 0)

schemaTablesContainOnlyRows_validate(table) ==
    LET invalids == SelectSeq(table.nodes, notRow)
        add == IF Len(invalids) = Len(table.nodes)
               THEN <<makeEmptyRow(nextKey)>> ELSE <<>>
    IN  IF invalids = <<>> /\ Len(add) = 0
        THEN NullDiagnosis
        ELSE Diagnosis("diag", <<>>, invalids, add, <<>>, 0)

schemaTablesContainOnlyRows_normalize(n, d) ==
    [i \in 1..Len(d.invalids) |-> removeNodeByKey(d.invalids[i].key, FALSE)]
        \o [i \in 1..Len(d.add) |-> insertNodeByKey(n.key, 0, d.add[i], TRUE)]

\* ---- rowsContainRequiredColumns
schemaRowsContainRequiredColumns_match(n) == n.type = typeTable

RECURSIVE schemaReduceColumns(_, _)
schemaReduceColumns(rows, count) ==
    IF rows = <<>> THEN count
    ELSE schemaReduceColumns(Tail(rows), Max(count, countCells(Head(rows))))

schemaInvalidRow(row, columns) ==
    LET cells == countCells(row)
        invalids == SelectSeq(row.nodes, notCell)
    IN  [valid |-> invalids = <<>> /\ cells = columns,
         row |-> row, invalids |-> invalids, add |-> columns - cells]

schemaRowsContainRequiredColumns_validate(table) ==
    LET rows == SelectSeq(table.nodes, isRow)
        columns == schemaReduceColumns(rows, 1)
        valid == \A i \in 1..Len(rows) : columns = countCells(rows[i])
    IN  IF valid THEN NullDiagnosis
        ELSE Diagnosis("diag",
                       SelectSeq([i \in 1..Len(rows) |->
                                        schemaInvalidRow(rows[i], columns)],
                                 isInvalidRow),
                       <<>>, <<>>, <<>>, 0)

\* rows.reduce: n is the number of the next key the host mints
RECURSIVE schemaNormalizeRows(_, _)
schemaNormalizeRows(rows, n) ==
    IF rows = <<>> THEN <<>>
    ELSE LET e == Head(rows)
         IN  [i \in 1..Len(e.invalids) |->
                    removeNodeByKey(e.invalids[i].key, FALSE)]
             \o [j \in 1..e.add |->
                    insertNodeByKey(e.row.key, 0, makeEmptyCell(n + j - 1), FALSE)]
             \o schemaNormalizeRows(Tail(rows), n + e.add)

schemaRowsContainRequiredColumns_normalize(n, d) ==
    schemaNormalizeRows(d.rows, nextKey)

\* ---- makeSchema(opts).rules
schemaRules == <<"tablesContainOnlyRows", "rowsContainRequiredColumns">>

schemaMatch(rule, n) ==
    CASE rule = "tablesContainOnlyRows" -> schemaTablesContainOnlyRows_match(n)
      [] rule = "rowsContainRequiredColumns" -> schemaRowsContainRequiredColumns_match(n)

schemaValidate(rule, n) ==
    CASE rule = "tablesContainOnlyRows" -> schemaTablesContainOnlyRows_validate(n)
      [] rule = "rowsContainRequiredColumns" -> schemaRowsContainRequiredColumns_validate(n)

schemaNormalize(rule, n, d) ==
    CASE rule = "tablesContainOnlyRows" -> schemaTablesContainOnlyRows_normalize(n, d)
      [] rule = "rowsContainRequiredColumns" -> schemaRowsContainRequiredColumns_normalize(n, d)

\* a rule of the schema fires on n: it matches and its validate is not null
schemaFires(rule, n) ==
    schemaMatch(rule, n) /\ schemaValidate(rule, n).status # "null"

\* ================================================================ behaviour
MaxIter == 4        \* cap on the repairs applied to one node

isInsert(o) == o.op = "insert"
\* keys the host minted for the nodes of os (an empty row holds a cell)
Minted(os) == 2 * Len(SelectSeq(os, isInsert))

Init ==
    /\ mode \in {"A", "B"}
    /\ \E t \in {typeTable, typeOther}, shape \in NodeShapes, d \in DataValues :
            node = MkNode(t, shape, d)
    /\ pc = "run"
    /\ iter = 0
    /\ pre = node
    /\ last = "none"
    /\ diag = NullDiagnosis
    /\ ops = <<>>
    /\ validated = <<>>
    /\ nextKey = 1

\* Mode A: validateTableNode returns a normalizer and the caller applies it
ValidateNodeRepair ==
    /\ mode = "A" /\ pc = "run" /\ iter < MaxIter
    /\ LET r == validateTableNode(node)
           emitted == ruleNormalize(r.rule, node, r.diag)
       IN  /\ r.status = "changer"
           /\ ops' = emitted
           /\ node' = ApplyOps(node, emitted)
           /\ pre' = node
           /\ last' = r.rule
           /\ diag' = r.diag
           /\ validated' = r.validated
           /\ nextKey' = nextKey + Minted(emitted)
    /\ iter' = iter + 1
    /\ UNCHANGED <<mode, pc>>

\* Mode A: validateTableNode returns undefined, the caller's loop ends
ValidateNodeDone ==
    /\ mode = "A" /\ pc = "run"
    /\ LET r == validateTableNode(node)
       IN  /\ r.status = "undefined"
           /\ validated' = r.validated
    /\ pc' = "done"
    /\ UNCHANGED <<mode, node, iter, pre, last, diag, ops, nextKey>>

\* Mode A: validateTableNode raises a TypeError
ValidateNodeThrow ==
    /\ mode = "A" /\ pc = "run"
    /\ LET r == validateTableNode(node)
       IN  /\ r.status = "throw"
           /\ validated' = r.validated
    /\ pc' = "error"
    /\ UNCHANGED <<mode, node, iter, pre, last, diag, ops, nextKey>>

\* Mode B: the host applies a rule of the schema that fires on the node
SchemaNormalize ==
    /\ mode = "B" /\ pc = "run" /\ iter < MaxIter
    /\ \E i \in 1..Len(schemaRules) :
         LET rule == schemaRules[i]
             d == schemaValidate(rule, node)
             emitted == schemaNormalize(rule, node, d)
         IN  /\ schemaFires(rule, node)
             /\ ops' = emitted
             /\ node' = ApplyOps(node, emitted)
             /\ pre' = node
             /\ last' = rule
             /\ diag' = d
             /\ nextKey' = nextKey + Minted(emitted)
    /\ iter' = iter + 1
    /\ UNCHANGED <<mode, pc, validated>>

\* Mode B: no rule of the schema fires, the host's normalisation ends
SchemaDone ==
    /\ mode = "B" /\ pc = "run"
    /\ \A i \in 1..Len(schemaRules) : ~schemaFires(schemaRules[i], node)
    /\ pc' = "done"
    /\ UNCHANGED <<mode, node, iter, pre, last, diag, ops, validated, nextKey>>

Next ==
    \/ ValidateNodeRepair
    \/ ValidateNodeDone
    \/ ValidateNodeThrow
    \/ SchemaNormalize
    \/ SchemaDone

Spec == Init /\ [][Next]_vars


\* =============================================================== properties
\* The three invariants of a table, stated on the tree itself.
IsTable(n) == n.type = typeTable
RowIdx(n) == {i \in 1..Len(n.nodes) : n.nodes[i].type = typeRow}
CellIdx(row) == {j \in 1..Len(row.nodes) : row.nodes[j].type = typeCell}
CellCount(row) == Cardinality(CellIdx(row))
OnlyCells(row) == CellIdx(row) = 1..Len(row.nodes)
Columns(n) ==
    LET S == {1} \cup {CellCount(n.nodes[i]) : i \in RowIdx(n)}
    IN  CHOOSE m \in S : \A x \in S : x <= m
KeysOf(seq) == {seq[i].key : i \in 1..Len(seq)}
IsFresh(n) == Len(n.key) = 2 /\ n.key[1] = 0
IsEmptyCell(n) ==
    /\ n.type = typeCell /\ Len(n.nodes) = 1
    /\ n.nodes[1].type = typeText /\ n.nodes[1].nodes = <<>>

OnlyRows(n) == RowIdx(n) = 1..Len(n.nodes)
RowsHaveColumns(n) ==
    \A i \in RowIdx(n) :
        OnlyCells(n.nodes[i]) /\ Len(n.nodes[i].nodes) = Columns(n)
AlignHasColumns(n) == n.data.hasAlign /\ Len(n.data.align) = Columns(n)
ValidTable(n) ==
    /\ IsTable(n) /\ Len(n.nodes) >= 1
    /\ OnlyRows(n) /\ RowsHaveColumns(n) /\ AlignHasColumns(n)

\* `after` is `before` with every row padded at the front to Columns(before)
\* cells, its own cells kept in order and everything else gone from the rows
ColumnsRepaired(before, after) ==
    /\ Len(after.nodes) = Len(before.nodes)
    /\ \A i \in 1..Len(before.nodes) :
         LET b == before.nodes[i]
             a == after.nodes[i]
             k == Columns(before)
             c == CellCount(b)
         IN  IF i \in RowIdx(before)
             THEN /\ a.key = b.key /\ a.type = typeRow
                  /\ Len(a.nodes) = k /\ OnlyCells(a)
                  /\ c <= k
                  /\ \A j \in 1..(k - c) :
                        IsFresh(a.nodes[j]) /\ IsEmptyCell(a.nodes[j])
                  /\ \E f \in [1..c -> CellIdx(b)] :
                        /\ \A x, y \in 1..c : x < y => f[x] < f[y]
                        /\ \A x \in 1..c : a.nodes[k - c + x] = b.nodes[f[x]]
             ELSE a = b

\* the table after the column-count rule of validateNode.js ran on it
ColumnRepairA(table) ==
    LET d == rowsContainRequiredColumns_validate(table)
    IN  IF d.status = "null" THEN table
        ELSE ApplyOps(table, rowsContainRequiredColumns_normalize(table, d))

\* the table after the column-count rule of makeSchema.js ran on it
ColumnRepairB(table) ==
    LET d == schemaRowsContainRequiredColumns_validate(table)
    IN  IF d.status = "null" THEN table
        ELSE ApplyOps(table, schemaRowsContainRequiredColumns_normalize(table, d))

\* C1: after the column-count repair (of either rule set) every row of the
\* table has exactly max(1, max c_i) cells and nothing else, its own cells
\* kept in order behind the new empty cells.
C1_ColumnRepair ==
    IsTable(node) =>
        /\ ColumnsRepaired(node, ColumnRepairA(node))
        /\ ColumnsRepaired(node, ColumnRepairB(node))

\* the same for the rule of validateNode.js alone
ColumnRepairModeA == IsTable(node) => ColumnsRepaired(node, ColumnRepairA(node))

\* C7: validateTableNode never raises an error on a node of table type.
C7_NeverThrows ==
    (mode = "A" /\ IsTable(node)) => pc # "error"

\* C9: the two rule sets return the same diagnosis on every table, for the
\* column-count rule and for the rows-only rule.
C9_RuleSetsAgree ==
    IsTable(node) =>
        /\ schemaRowsContainRequiredColumns_validate(node)
                = rowsContainRequiredColumns_validate(node)
        /\ schemaTablesContainOnlyRows_validate(node)
                = tablesContainOnlyRows_validate(node)


\* ------------------------------------------------------------------- C2
\* C2 as stated: the Mode A loop ends with a table that satisfies all three
\* invariants (only rows, every row exactly `columns` cells, align of
\* length `columns`).
C2_Original ==
    (mode = "A" /\ IsTable(node) /\ pc = "done") =>
        OnlyRows(node) /\ RowsHaveColumns(node) /\ AlignHasColumns(node)

\* C2 amended: the Mode A loop ends after at most two repairs; it never
\* inserts or removes a child of the table; when it ends normally every row
\* has exactly `columns` cells and nothing else, align has length `columns`
\* whenever the first child is a row, and all three invariants hold exactly
\* when every child of the table is a row; it ends by the TypeError of C7
\* only on a table without children.
C2_Amended ==
    (mode = "A" /\ IsTable(node)) =>
        /\ iter <= 2
        /\ (pc = "run" /\ iter = 2) => validateTableNode(node).status = "undefined"
        /\ Len(node.nodes) = Len(pre.nodes)
        /\ \A i \in 1..Len(pre.nodes) :
                /\ node.nodes[i].key = pre.nodes[i].key
                /\ node.nodes[i].type = pre.nodes[i].type
        /\ (pc = "error") => node.nodes = <<>>
        /\ (pc = "done") =>
                /\ Len(node.nodes) >= 1
                /\ RowsHaveColumns(node)
                /\ (1 \in RowIdx(node)) => AlignHasColumns(node)
                /\ OnlyRows(node) <=> ValidTable(node)

C2_Witness ==
    /\ mode = "A" /\ pc = "done" /\ iter = 2
    /\ ValidTable(node)
    /\ last = "tableContainAlignData"

\* ------------------------------------------------------------------- C3
\* C3: on a table that satisfies the three invariants every rule's validate
\* returns null and validateTableNode returns no normalizer; and the table a
\* rule's repair produced is not diagnosed again by that rule.
C3_Idempotence ==
    /\ ValidTable(node) =>
            /\ tablesContainOnlyRows_validate(node).status = "null"
            /\ rowsContainRequiredColumns_validate(node).status = "null"
            /\ tableContainAlignData_validate(node).status = "null"
            /\ schemaTablesContainOnlyRows_validate(node).status = "null"
            /\ schemaRowsContainRequiredColumns_validate(node).status = "null"
            /\ validateTableNode(node).status = "undefined"
    /\ (mode = "A" /\ last # "none") => ruleValidate(last, node).status = "null"
    /\ (mode = "B" /\ last # "none") => schemaValidate(last, node).status = "null"
    /\ IsTable(node) =>
            LET d == tablesContainOnlyRows_validate(node)
                after == ApplyOps(node, tablesContainOnlyRows_normalize(node, d))
            IN  tablesContainOnlyRows_validate(after).status = "null"

C3_Witness ==
    /\ ValidTable(node) /\ Len(node.nodes) >= 2 /\ Columns(node) >= 2
    /\ last = "tableContainAlignData"

\* ------------------------------------------------------------------- C4
isRemove(o) == o.op = "remove"
OpIdx(os, kind) == {i \in 1..Len(os) : os[i].op = kind}

RowsOnlyRepairOK(before, os, after) ==
    LET nonRows == (1..Len(before.nodes)) \ RowIdx(before)
        rem == OpIdx(os, "remove")
        ins == OpIdx(os, "insert")
    IN  /\ rem \cup ins = 1..Len(os)
        /\ {os[i].key : i \in rem} = {before.nodes[i].key : i \in nonRows}
        /\ Cardinality(rem) = Cardinality(nonRows)
        /\ \A i \in RowIdx(before), j \in rem : os[j].key # before.nodes[i].key
        /\ Cardinality(ins) = IF RowIdx(before) = {} THEN 1 ELSE 0
        /\ \A j \in ins :
                /\ os[j].key = before.key /\ os[j].index = 0
                /\ os[j].node.type = typeRow /\ IsFresh(os[j].node)
                /\ Len(os[j].node.nodes) = 1
                /\ IsEmptyCell(os[j].node.nodes[1])
                /\ after.nodes = <<os[j].node>>
        /\ (ins = {}) => after.nodes = SelectSeq(before.nodes, isRow)
        /\ Len(after.nodes) >= 1 /\ OnlyRows(after)

RowsOnlyOpsA(table) ==
    LET d == tablesContainOnlyRows_validate(table)
    IN  IF d.status = "null" THEN <<>>
        ELSE tablesContainOnlyRows_normalize(table, d)

RowsOnlyOpsB(table) ==
    LET d == schemaTablesContainOnlyRows_validate(table)
    IN  IF d.status = "null" THEN <<>>
        ELSE schemaTablesContainOnlyRows_normalize(table, d)

\* C4: the rows-only rule removes exactly the non-row children and no row,
\* inserts one synthetic empty row (one empty cell) iff the table has no
\* row, and leaves a table with at least one row and only rows.
C4_RowsOnlyRepair ==
    /\ (last = "tablesContainOnlyRows") => RowsOnlyRepairOK(pre, ops, node)
    /\ IsTable(node) =>
            /\ RowsOnlyRepairOK(node, RowsOnlyOpsA(node),
                                ApplyOps(node, RowsOnlyOpsA(node)))
            /\ RowsOnlyRepairOK(node, RowsOnlyOpsB(node),
                                ApplyOps(node, RowsOnlyOpsB(node)))

C4_Witness ==
    /\ last = "tablesContainOnlyRows"
    /\ Len(pre.nodes) = 2 /\ RowIdx(pre) = {}
    /\ Len(ops) = 3 /\ Len(node.nodes) = 1

C4_WitnessKeepsRow ==
    /\ last = "tablesContainOnlyRows"
    /\ Len(pre.nodes) = 2 /\ RowIdx(pre) = {2}
    /\ Len(ops) = 1 /\ node.nodes = <<pre.nodes[2]>>

\* ------------------------------------------------------------------- C5
AlignOps(table) ==
    LET d == tableContainAlignData_validate(table)
    IN  IF d.status = "diag" THEN tableContainAlignData_normalize(table, d)
        ELSE <<>>

AlignRepairOK(before, os, after) ==
    /\ Len(dataGetAlign(after.data)) = Len(before.nodes[1].nodes)
    /\ after.nodes = before.nodes
    /\ Len(os) <= 1
    /\ \A i \in 1..Len(os) :
            os[i].op = "set" /\ os[i].key = before.key /\ os[i].normalize = FALSE

\* C5: on a table whose first child is a row, after tableContainAlignData
\* ran the length of data.align is the number of children of the first row;
\* the repair is one set-node-data operation on the table and touches no
\* child.
C5_AlignLength ==
    /\ (IsTable(node) /\ 1 \in RowIdx(node)) =>
            /\ tableContainAlignData_validate(node).status # "throw"
            /\ AlignRepairOK(node, AlignOps(node), ApplyOps(node, AlignOps(node)))
    /\ (last = "tableContainAlignData") =>
            /\ Len(ops) = 1 /\ node.data.hasAlign
            /\ AlignRepairOK(pre, ops, node)

C5_Witness ==
    /\ last = "tableContainAlignData"
    /\ Len(dataGetAlign(pre.data)) > Len(pre.nodes[1].nodes)
    /\ Len(node.data.align) = Len(node.nodes[1].nodes)

C5_WitnessExtend ==
    /\ last = "tableContainAlignData"
    /\ ~pre.data.hasAlign
    /\ Len(node.data.align) = 2


\* ------------------------------------------------------------------- C6
\* what one call of validateTableNode on n must return: the first rule, in
\* the order column-count then alignment, that matches n and diagnoses it
FirstMatchOK(n, r) ==
    LET cols == rowsContainRequiredColumns_validate(n)
        algn == tableContainAlignData_validate(n)
    IN  IF ~IsTable(n)
        THEN r.status = "undefined" /\ r.validated = <<>>
        ELSE IF cols.status = "diag"
        THEN /\ r.status = "changer" /\ r.rule = "rowsContainRequiredColumns"
             /\ r.diag = cols
             /\ r.validated = <<"rowsContainRequiredColumns">>
        ELSE /\ r.validated = <<"rowsContainRequiredColumns", "tableContainAlignData">>
             /\ (algn.status = "diag") =>
                    /\ r.status = "changer" /\ r.rule = "tableContainAlignData"
                    /\ r.diag = algn
             /\ (algn.status = "null") => r.status = "undefined"

\* C6: one call of validateTableNode tries the column-count rule, then the
\* alignment rule; it returns the repair of the first rule that matches and
\* diagnoses the node and evaluates no later rule; it returns nothing when
\* no rule matches (any node that is not a table) or every diagnosis is null.
C6_FirstMatch ==
    /\ FirstMatchOK(node, validateTableNode(node))
    /\ (mode = "A" /\ last # "none" /\ pc = "run") =>
            /\ FirstMatchOK(pre, [status |-> "changer", rule |-> last,
                                  diag |-> diag, validated |-> validated])
            /\ node = ApplyOps(pre, ops)
            /\ (last = "rowsContainRequiredColumns") =>
                    ops = normalizeRows(diag.rows, nextKey - Minted(ops))
            /\ (last = "tableContainAlignData") =>
                    ops = tableContainAlignData_normalize(pre, diag)
    /\ (mode = "A" /\ pc = "done") =>
            FirstMatchOK(node, [status |-> "undefined", rule |-> "none",
                                diag |-> NullDiagnosis, validated |-> validated])

\* the column-count repair was returned although the alignment rule would
\* have diagnosed the node too
C6_Witness ==
    /\ mode = "A" /\ pc = "run" /\ last = "rowsContainRequiredColumns"
    /\ validated = <<"rowsContainRequiredColumns">>
    /\ tableContainAlignData_validate(pre).status = "diag"

C6_WitnessNotTable ==
    /\ mode = "A" /\ pc = "done" /\ ~IsTable(node) /\ validated = <<>>
    /\ Len(node.nodes) = 2 /\ RowIdx(node) = {1, 2}
    /\ CellCount(node.nodes[1]) # CellCount(node.nodes[2])

\* ------------------------------------------------------------------- C8
NonConforming(n) ==
    {i \in RowIdx(n) :
        ~OnlyCells(n.nodes[i]) \/ CellCount(n.nodes[i]) # Columns(n)}

\* seq lists, in order, the elements of src at the positions idx
ListsInOrder(seq, src, idx) ==
    /\ Len(seq) = Cardinality(idx)
    /\ \E f \in [1..Len(seq) -> idx] :
            /\ \A x, y \in 1..Len(seq) : x < y => f[x] < f[y]
            /\ \A x \in 1..Len(seq) : seq[x] = src[f[x]]

StripNonRows(n) == [n EXCEPT !.nodes = SelectSeq(n.nodes, isRow)]

DiagnosisExact(n, d) ==
    /\ d.status \in {"null", "diag"}
    /\ (d.status = "null") <=> (NonConforming(n) = {})
    /\ (d.status = "diag") =>
            /\ ListsInOrder([x \in 1..Len(d.rows) |-> d.rows[x].row], n.nodes,
                            NonConforming(n))
            /\ \A x \in 1..Len(d.rows) :
                 LET e == d.rows[x]
                 IN  /\ ListsInOrder(e.invalids, e.row.nodes,
                                     (1..Len(e.row.nodes)) \ CellIdx(e.row))
                     /\ e.add = Columns(n) - CellCount(e.row)
                     /\ e.add >= 0

\* C8: rowsContainRequiredColumns.validate returns null iff every row has
\* only cells and exactly columns = max(1, max cell count) of them;
\* otherwise one entry {row, invalids, add} per non-conforming row, in row
\* order, invalids being the row's non-cell children and add = columns -
\* cells >= 0; non-row children of the table change nothing.
C8_DiagnosisExact ==
    /\ IsTable(node) =>
            /\ DiagnosisExact(node, rowsContainRequiredColumns_validate(node))
            /\ rowsContainRequiredColumns_validate(StripNonRows(node))
                    = rowsContainRequiredColumns_validate(node)
    /\ (mode = "A" /\ last = "rowsContainRequiredColumns") =>
            DiagnosisExact(pre, diag)

\* a diagnosis that omits a conforming row and holds an entry with add = 0
C8_Witness ==
    /\ mode = "A" /\ last = "rowsContainRequiredColumns"
    /\ Len(diag.rows) < Cardinality(RowIdx(pre))
    /\ \E x \in 1..Len(diag.rows) :
            diag.rows[x].add = 0 /\ diag.rows[x].invalids # <<>>

\* ------------------------------------------------------------------ C10
ColumnOpsOK(before, d, os) ==
    /\ \A i \in 1..Len(os) :
            os[i].op \in {"remove", "insert"} /\ os[i].normalize = FALSE
    /\ \A x \in 1..Len(d.rows) :
         LET e == d.rows[x]
             rem == {i \in OpIdx(os, "remove") : os[i].key \in KeysOf(e.invalids)}
             ins == {i \in OpIdx(os, "insert") : os[i].key = e.row.key}
         IN  /\ \A i \in rem, j \in ins : i < j
             /\ Cardinality(rem) = Len(e.invalids)
             /\ Cardinality(ins) = e.add
             /\ \A j \in ins : os[j].index = 0 /\ IsEmptyCell(os[j].node)
    /\ \A i \in OpIdx(os, "remove") :
            \E x \in 1..Len(d.rows) : os[i].key \in KeysOf(d.rows[x].invalids)
    /\ \A i \in OpIdx(os, "insert") :
            \E x \in 1..Len(d.rows) : os[i].key = d.rows[x].row.key
    /\ \A r \in RowIdx(before) \ NonConforming(before), i \in 1..Len(os) :
            /\ os[i].key # before.nodes[r].key
            /\ os[i].key \notin KeysOf(before.nodes[r].nodes)
    /\ \A i \in 1..Len(os) :
            \E r \in RowIdx(before) :
                \/ os[i].key = before.nodes[r].key
                \/ os[i].key \in KeysOf(before.nodes[r].nodes)

RemovalsFirst(os) ==
    \A i \in OpIdx(os, "remove"), j \in OpIdx(os, "insert") : i < j

C10_WitnessRowsOnly ==
    /\ last = "tablesContainOnlyRows"
    /\ OpIdx(ops, "remove") # {} /\ OpIdx(ops, "insert") # {}

====
